---- MODULE Spec2Model ----
(***************************************************************************)
(* Model of case_cli_example/cli.py: the passive-DNS CSV to CASE/UCO graph *)
(* pipeline.  main() parses the arguments, configures the identifier       *)
(* generator, runs process_dns_records() over the CSV rows (one graph.add  *)
(* per step, so that intermediate graphs are states), picks the output     *)
(* format, serializes, and optionally runs validate_case_output().         *)
(*                                                                         *)
(* Program positions are named after the source line they stand at.        *)
(* An optional Python value (None or a value) is a sequence of length 0    *)
(* or 1.  RDF terms are records of one shape so that triples compare.      *)
(*                                                                         *)
(* Environment assumptions: the CSV file exists and is readable, every     *)
(* data row has one field per header column, the                           *)
(* destination is writable and the chosen format has a serializer plugin.  *)
(* local_uuid() never repeats a value within a run.  A file parses as      *)
(* JSON-LD exactly when it was serialized as JSON-LD.                      *)
(***************************************************************************)
EXTENDS Integers, Sequences, FiniteSets, TLC

VARIABLES
    args,             \* argparse namespace: output_format, out_graph, validate
    csv,              \* the input file: header fieldnames and data rows
    pc,               \* program position
    graph,            \* rdflib Graph: a set of triples
    uuid_counter,     \* state of the identifier generator
    issued,           \* history: every identifier minted, in order
    rowIdx,           \* number of rows the reader has yielded
    consumed,         \* history: the rows the loop has received, in order
    row,              \* loop variable (a one-element sequence once bound)
    dns_record_id,
    domain_facet_id,
    ip_facet_id,
    relationship_id,
    output_format,    \* local of main (one-element sequence once set)
    out_file,         \* the destination file (empty sequence while absent)
    ont_loaded,       \* ontology files parsed into ont_graph so far
    validation,       \* return value of validate_case_output
    outcome,          \* history: how validate_case_output ended
    exception,        \* uncaught exception that ended the run
    exit_code         \* process exit status (empty sequence while running)

vars == <<args, csv, pc, graph, uuid_counter, issued, rowIdx, consumed, row,
          dns_record_id, domain_facet_id, ip_facet_id, relationship_id,
          output_format, out_file, ont_loaded, validation, outcome,
          exception, exit_code>>

----------------------------------------------------------------------------
(* Bounds and input domains *)

MaxRows == 2

COL_DOMAIN == "observable:DomainName"
COL_KIND   == "core:kindOfRelationship"
COL_IP     == "observable:IPv4Address"
COL_TIME   == "observable:timeDateStamp"

RequiredColumns == {COL_DOMAIN, COL_KIND, COL_IP, COL_TIME}

ColumnValues(c) ==
    IF c = COL_DOMAIN THEN {"evil.org"}
    ELSE IF c = COL_IP THEN {"203.0.113.5"}
    ELSE IF c = COL_KIND THEN {"resolves to", "mentions"}
    ELSE {"2024-01-15T10:30:00Z", "2024-01-16T08:00:00Z"}

AllValues == UNION {ColumnValues(c) : c \in RequiredColumns}

\* csv.DictReader: every row is a dict keyed by the header's fieldnames
RowsOver(fields) ==
    {r \in [fields -> AllValues] : \A c \in fields : r[c] \in ColumnValues(c)}

CsvFiles ==
    UNION {[fieldnames : {fields},
            rows : UNION {[1..n -> RowsOver(fields)] : n \in 0..MaxRows}]
           : fields \in SUBSET RequiredColumns}

\* --output-format: absent, or any string (here: empty, or a serializer name)
OutputFormatArgs == {<<>>, <<"">>, <<"json-ld">>, <<"turtle">>}

\* out_graph is represented by its file extension
OutGraphArgs == {"json", "ttl", "txt"}

ArgSets == [output_format : OutputFormatArgs,
            out_graph : OutGraphArgs,
            validate : BOOLEAN]

----------------------------------------------------------------------------
(* RDF terms and identifiers *)

Iri(name) == [t |-> "iri", a |-> name, d |-> "", n |-> 0]

Literal(lexical, datatype) == [t |-> "lit", a |-> lexical, d |-> datatype, n |-> 0]

NoId == [t |-> "none", a |-> "", d |-> "", n |-> 0]

NodeId_NoUuid(kind, uuid) == [t |-> "kb", a |-> kind, d |-> "", n |-> 0]

\* ns_kb[f"{kind}-{local_uuid()}"]
NodeId(kind, uuid) == [t |-> "kb", a |-> kind, d |-> "", n |-> uuid]

\* local_uuid(): the next value of the generator
NextUuid == uuid_counter + 1

RDF_TYPE == "rdf:type"

CLS_DNSRecord        == Iri("uco-observable:DNSRecord")
CLS_DomainNameFacet  == Iri("uco-observable:DomainNameFacet")
CLS_IPv4AddressFacet == Iri("uco-observable:IPv4AddressFacet")
CLS_Relationship     == Iri("uco-core:Relationship")

InitialGraph == {}

----------------------------------------------------------------------------
(* Program order inside the row loop *)

RowBody_RelationshipFirst ==
    <<"L82", "L85", "L88", "L95", "L100",
      "L129", "L130", "L131", "L132", "L134", "L140",
      "L107", "L108", "L109", "L116", "L117", "L118", "L125", "L126">>

RowBody ==
    <<"L82", "L85", "L88", "L95", "L100",
      "L107", "L108", "L109", "L116", "L117", "L118", "L125", "L126",
      "L129", "L130", "L131", "L132", "L134", "L140">>

RowLabels == {RowBody[i] : i \in DOMAIN RowBody}

\* the statement after `label`; after the last one control returns to the loop head
After(label) ==
    LET i == CHOOSE k \in DOMAIN RowBody : RowBody[k] = label
    IN IF i = Len(RowBody) THEN "L80" ELSE RowBody[i + 1]

ReaderRows_HeaderAsRow == <<[c \in csv.fieldnames |-> c]>> \o csv.rows

\* the rows csv.DictReader yields: the data rows, the header line consumed
ReaderRows == csv.rows

MoreRows == rowIdx < Len(ReaderRows)

RowAt_Reversed(i) == ReaderRows[Len(ReaderRows) + 1 - i]

RowAt(i) == ReaderRows[i]

----------------------------------------------------------------------------
(* The triples of one row *)

Stmt_L85  == <<dns_record_id, RDF_TYPE, CLS_DNSRecord>>
Stmt_L88  == <<dns_record_id, "uco-core:observationTime",
               Literal(row[1][COL_TIME], "xsd:dateTime")>>
Stmt_L95  == <<dns_record_id, "uco-observable:recordType", Literal("A", "")>>
Stmt_L100 == <<dns_record_id, "uco-observable:isPassiveDNS",
               Literal("true", "xsd:boolean")>>
Stmt_L108 == <<domain_facet_id, RDF_TYPE, CLS_DomainNameFacet>>
Stmt_L109 == <<domain_facet_id, "uco-observable:value",
               Literal(row[1][COL_DOMAIN], "")>>
Stmt_L117 == <<ip_facet_id, RDF_TYPE, CLS_IPv4AddressFacet>>
Stmt_L118 == <<ip_facet_id, "uco-observable:addressValue",
               Literal(row[1][COL_IP], "")>>
Stmt_L125 == <<dns_record_id, "uco-core:hasFacet", domain_facet_id>>

Stmt_L126_DomainTwice == <<dns_record_id, "uco-core:hasFacet", domain_facet_id>>

Stmt_L126 == <<dns_record_id, "uco-core:hasFacet", ip_facet_id>>
Stmt_L130 == <<relationship_id, RDF_TYPE, CLS_Relationship>>
Stmt_L131 == <<relationship_id, "uco-core:source", domain_facet_id>>
Stmt_L132 == <<relationship_id, "uco-core:target", ip_facet_id>>
Stmt_L134 == <<relationship_id, "uco-core:isDirectional",
               Literal("true", "xsd:boolean")>>

Stmt_L140_FromRow ==
    <<relationship_id, "uco-core:kindOfRelationship",
      Literal(IF COL_KIND \in DOMAIN row[1] THEN row[1][COL_KIND] ELSE "Resolved_To", "")>>

Stmt_L140 == <<relationship_id, "uco-core:kindOfRelationship",
               Literal("Resolved_To", "")>>

----------------------------------------------------------------------------
(* Output format and validator helpers *)

\* rdflib.util.guess_format on the destination's extension
SUFFIX_FORMAT_MAP ==
    [e \in {"json", "ttl"} |-> IF e = "json" THEN "json-ld" ELSE "turtle"]

guess_format(ext) ==
    IF ext \in DOMAIN SUFFIX_FORMAT_MAP THEN <<SUFFIX_FORMAT_MAP[ext]>> ELSE <<>>

\* Python's `x or default`: None and the empty string are falsy
PyOr(x, default) == IF x = <<>> \/ x[1] = "" THEN default ELSE x[1]

OutputFormat_GuessFirst ==
    PyOr(IF guess_format(args.out_graph) # <<>>
         THEN guess_format(args.out_graph) ELSE args.output_format, "json-ld")

\* main, lines 263-267
OutputFormat ==
    PyOr(IF args.output_format = <<>>
         THEN guess_format(args.out_graph) ELSE args.output_format, "json-ld")

ValidatorParseFormat_AsSerialized == output_format[1]

\* data_graph.parse(output_file, format="json-ld")
ValidatorParseFormat == "json-ld"

ParsesAs(file, fmt) == file.format = fmt

OntologyFiles == <<"core.ttl", "observable.ttl">>

ReturnOnLoadFailure_Conforms == TRUE

\* line 172: return False
ReturnOnLoadFailure == FALSE

----------------------------------------------------------------------------
(* Initial state: arguments parsed, nothing run yet *)

Init ==
    /\ args \in ArgSets
    /\ csv \in CsvFiles
    /\ pc = "L247"
    /\ graph = InitialGraph
    /\ uuid_counter = 0
    /\ issued = <<>>
    /\ rowIdx = 0
    /\ consumed = <<>>
    /\ row = <<>>
    /\ dns_record_id = NoId
    /\ domain_facet_id = NoId
    /\ ip_facet_id = NoId
    /\ relationship_id = NoId
    /\ output_format = <<>>
    /\ out_file = <<>>
    /\ ont_loaded = <<>>
    /\ validation = <<>>
    /\ outcome = "none"
    /\ exception = ""
    /\ exit_code = <<>>

----------------------------------------------------------------------------
(* Helpers shared by the actions *)

idVars   == <<dns_record_id, domain_facet_id, ip_facet_id, relationship_id>>
genVars  == <<uuid_counter, issued>>
loopVars == <<rowIdx, consumed, row>>
mainVars == <<output_format, out_file>>
valVars  == <<ont_loaded, validation, outcome>>
endVars  == <<exception, exit_code>>

\* an exception nothing catches: the interpreter prints a traceback and exits 1
Raise(exc) ==
    /\ pc' = "aborted"
    /\ exception' = exc
    /\ exit_code' = <<1>>

\* graph.add(stmt) at `label`
AddStmt(label, stmt) ==
    /\ pc = label
    /\ graph' = graph \cup {stmt}
    /\ pc' = After(label)
    /\ UNCHANGED <<args, csv, genVars, loopVars, idVars, mainVars, valVars, endVars>>

\* graph.add of a statement that reads row[key]: KeyError when the key is absent
AddRowStmt(label, key, stmt) ==
    /\ pc = label
    /\ IF key \in DOMAIN row[1]
       THEN /\ graph' = graph \cup {stmt}
            /\ pc' = After(label)
            /\ UNCHANGED endVars
       ELSE /\ Raise("KeyError")
            /\ UNCHANGED graph
    /\ UNCHANGED <<args, csv, genVars, loopVars, idVars, mainVars, valVars>>

\* the bookkeeping of ns_kb[f"{kind}-{local_uuid()}"] at `label`
Mint(label, kind) ==
    /\ pc = label
    /\ uuid_counter' = NextUuid
    /\ issued' = Append(issued, NodeId(kind, NextUuid))
    /\ pc' = After(label)
    /\ UNCHANGED <<args, csv, graph, loopVars, mainVars, valVars, endVars>>

----------------------------------------------------------------------------
(* main, up to the loop *)

\* cdo_local_uuid.configure(); Graph(); namespace bindings; open(); DictReader
Setup ==
    /\ pc = "L247"
    /\ uuid_counter' = 0
    /\ graph' = InitialGraph
    /\ pc' = "L80"
    /\ UNCHANGED <<args, csv, issued, loopVars, idVars, mainVars, valVars, endVars>>

\* for row in reader
LoopHead ==
    /\ pc = "L80"
    /\ IF MoreRows
       THEN /\ row' = <<RowAt(rowIdx + 1)>>
            /\ consumed' = Append(consumed, RowAt(rowIdx + 1))
            /\ rowIdx' = rowIdx + 1
            /\ pc' = RowBody[1]
       ELSE /\ pc' = "L263"
            /\ UNCHANGED loopVars
    /\ UNCHANGED <<args, csv, graph, genVars, idVars, mainVars, valVars, endVars>>

----------------------------------------------------------------------------
(* process_dns_records: the loop body, one statement per action *)

MintDnsRecord ==
    /\ Mint("L82", "DNSRecord")
    /\ dns_record_id' = NodeId("DNSRecord", NextUuid)
    /\ UNCHANGED <<domain_facet_id, ip_facet_id, relationship_id>>

AddDnsRecordType == AddStmt("L85", Stmt_L85)

AddObservationTime == AddRowStmt("L88", COL_TIME, Stmt_L88)

AddRecordType == AddStmt("L95", Stmt_L95)

AddIsPassiveDNS == AddStmt("L100", Stmt_L100)

MintDomainFacet ==
    /\ Mint("L107", "DomainNameFacet")
    /\ domain_facet_id' = NodeId("DomainNameFacet", NextUuid)
    /\ UNCHANGED <<dns_record_id, ip_facet_id, relationship_id>>

AddDomainFacetType == AddStmt("L108", Stmt_L108)

AddDomainValue == AddRowStmt("L109", COL_DOMAIN, Stmt_L109)

MintIpFacet ==
    /\ Mint("L116", "IPv4AddressFacet")
    /\ ip_facet_id' = NodeId("IPv4AddressFacet", NextUuid)
    /\ UNCHANGED <<dns_record_id, domain_facet_id, relationship_id>>

AddIpFacetType == AddStmt("L117", Stmt_L117)

AddAddressValue == AddRowStmt("L118", COL_IP, Stmt_L118)

AddHasFacetDomain == AddStmt("L125", Stmt_L125)

AddHasFacetIp == AddStmt("L126", Stmt_L126)

MintRelationship ==
    /\ Mint("L129", "Relationship")
    /\ relationship_id' = NodeId("Relationship", NextUuid)
    /\ UNCHANGED <<dns_record_id, domain_facet_id, ip_facet_id>>

AddRelationshipType == AddStmt("L130", Stmt_L130)

AddSource == AddStmt("L131", Stmt_L131)

AddTarget == AddStmt("L132", Stmt_L132)

AddIsDirectional == AddStmt("L134", Stmt_L134)

AddKindOfRelationship == AddStmt("L140", Stmt_L140)

----------------------------------------------------------------------------
(* main, after the loop *)

DetermineFormat ==
    /\ pc = "L263"
    /\ output_format' = <<OutputFormat>>
    /\ pc' = "L270"
    /\ UNCHANGED <<args, csv, graph, genVars, loopVars, idVars, out_file, valVars, endVars>>

\* graph.serialize(destination=args.out_graph, format=output_format, ...)
Serialize ==
    /\ pc = "L270"
    /\ out_file' = <<[format |-> output_format[1], triples |-> graph]>>
    /\ pc' = "L281"
    /\ UNCHANGED <<args, csv, graph, genVars, loopVars, idVars, output_format, valVars, endVars>>

\* if args.validate: ... ; falling off the end of main exits 0
CheckValidateFlag ==
    /\ pc = "L281"
    /\ IF args.validate
       THEN /\ pc' = "L153"
            /\ UNCHANGED endVars
       ELSE /\ pc' = "done"
            /\ exit_code' = <<0>>
            /\ UNCHANGED exception
    /\ UNCHANGED <<args, csv, graph, genVars, loopVars, idVars, mainVars, valVars>>

----------------------------------------------------------------------------
(* validate_case_output *)

\* data_graph.parse(output_file, format="json-ld"); a parse error lands in
\* the outer except clause, which returns False
ParseDataGraph ==
    /\ pc = "L153"
    /\ IF ParsesAs(out_file[1], ValidatorParseFormat)
       THEN /\ pc' = "L167"
            /\ UNCHANGED <<validation, outcome>>
       ELSE /\ validation' = <<FALSE>>
            /\ outcome' = "parse_failed"
            /\ pc' = "L283"
    /\ UNCHANGED <<args, csv, graph, genVars, loopVars, idVars, mainVars, ont_loaded, endVars>>

\* for name, url in urls.items(): ont_graph.parse(url) succeeds or raises
LoadOntology ==
    /\ pc = "L167"
    /\ \E ok \in BOOLEAN :
         IF ok
         THEN /\ ont_loaded' = Append(ont_loaded, OntologyFiles[Len(ont_loaded) + 1])
              /\ pc' = IF Len(ont_loaded) + 1 = Len(OntologyFiles) THEN "L175" ELSE "L167"
              /\ UNCHANGED <<validation, outcome>>
         ELSE /\ validation' = <<ReturnOnLoadFailure>>
              /\ outcome' = "load_failed"
              /\ pc' = "L283"
              /\ UNCHANGED ont_loaded
    /\ UNCHANGED <<args, csv, graph, genVars, loopVars, idVars, mainVars, endVars>>

\* pyshacl.validate(...): conforms, does not conform, or raises
RunShacl ==
    /\ pc = "L175"
    /\ \E r \in {"conforms", "nonconforming", "exception"} :
         /\ outcome' = r
         /\ validation' = <<(r = "conforms")>>
    /\ pc' = "L283"
    /\ UNCHANGED <<args, csv, graph, genVars, loopVars, idVars, mainVars, ont_loaded, endVars>>

\* if validate_case_output(...): ... else: sys.exit(1)
ExitOnValidation ==
    /\ pc = "L283"
    /\ exit_code' = IF validation[1] THEN <<0>> ELSE <<1>>
    /\ pc' = "done"
    /\ UNCHANGED <<args, csv, graph, genVars, loopVars, idVars, mainVars, valVars, exception>>

----------------------------------------------------------------------------

Next ==
    \/ Setup
    \/ LoopHead
    \/ MintDnsRecord
    \/ AddDnsRecordType
    \/ AddObservationTime
    \/ AddRecordType
    \/ AddIsPassiveDNS
    \/ MintDomainFacet
    \/ AddDomainFacetType
    \/ AddDomainValue
    \/ MintIpFacet
    \/ AddIpFacetType
    \/ AddAddressValue
    \/ AddHasFacetDomain
    \/ AddHasFacetIp
    \/ MintRelationship
    \/ AddRelationshipType
    \/ AddSource
    \/ AddTarget
    \/ AddIsDirectional
    \/ AddKindOfRelationship
    \/ DetermineFormat
    \/ Serialize
    \/ CheckValidateFlag
    \/ ParseDataGraph
    \/ LoadOntology
    \/ RunShacl
    \/ ExitOnValidation

Spec == Init /\ [][Next]_vars

----------------------------------------------------------------------------
(* Vocabulary for the properties *)

NodesOfType(g, cls) == {t[1] : t \in {u \in g : u[2] = RDF_TYPE /\ u[3] = cls}}

Objects(g, s, p) == {t[3] : t \in {u \in g : u[1] = s /\ u[2] = p}}

\* process_dns_records has returned to main
ReturnedPcs == {"L263", "L270", "L281", "L153", "L167", "L175", "L283", "done"}

\* the serialization step has been reached / has completed
SerializeReachedPcs == {"L270", "L281", "L153", "L167", "L175", "L283", "done"}
WrittenPcs == {"L281", "L153", "L167", "L175", "L283", "done"}
ValidatorPcs == {"L153", "L167", "L175"}

\* rows whose loop body has run to its end
RowsDone == IF pc \in RowLabels \/ pc = "aborted" THEN rowIdx - 1 ELSE rowIdx

\* the identifiers minted for the k-th row, by role
IdOf(k, role) == issued[4 * (k - 1) + role]

WellFormed == RequiredColumns \subseteq csv.fieldnames

IsFailure(o) == o \in {"nonconforming", "parse_failed", "load_failed", "exception"}

----------------------------------------------------------------------------
\* C1: once process_dns_records has processed N well-formed rows (at the loop
\* head after N rows, and after the loop with N = all rows), the graph holds
\* exactly N DNSRecord and N Relationship nodes; each row's DNSRecord has
\* exactly two hasFacet edges, to that row's DomainNameFacet and
\* IPv4AddressFacet, and exactly one Relationship has that DomainNameFacet as
\* source, and its target is that IPv4AddressFacet.
C1_RowShape(k) ==
    LET d == IdOf(k, 1)
        f == IdOf(k, 2)
        i == IdOf(k, 3)
        r == IdOf(k, 4)
    IN /\ d \in NodesOfType(graph, CLS_DNSRecord)
       /\ f \in NodesOfType(graph, CLS_DomainNameFacet)
       /\ i \in NodesOfType(graph, CLS_IPv4AddressFacet)
       /\ r \in NodesOfType(graph, CLS_Relationship)
       /\ Objects(graph, d, "uco-core:hasFacet") = {f, i}
       /\ f # i
       /\ {x \in NodesOfType(graph, CLS_DNSRecord) :
             Objects(graph, x, "uco-core:hasFacet") \cap {f, i} # {}} = {d}
       /\ Objects(graph, f, "uco-observable:value")
            = {Literal(csv.rows[k][COL_DOMAIN], "")}
       /\ Objects(graph, i, "uco-observable:addressValue")
            = {Literal(csv.rows[k][COL_IP], "")}
       /\ Objects(graph, d, "uco-core:observationTime")
            = {Literal(csv.rows[k][COL_TIME], "xsd:dateTime")}
       /\ {x \in NodesOfType(graph, CLS_Relationship) :
             f \in Objects(graph, x, "uco-core:source")} = {r}
       /\ {x \in NodesOfType(graph, CLS_Relationship) :
             i \in Objects(graph, x, "uco-core:target")} = {r}
       /\ Objects(graph, r, "uco-core:source") = {f}
       /\ Objects(graph, r, "uco-core:target") = {i}

C1_GraphShape ==
    WellFormed =>
        /\ pc # "aborted"
        /\ (pc \in ReturnedPcs => rowIdx = Len(csv.rows))
        /\ (pc = "L80" \/ pc \in ReturnedPcs) =>
             /\ Cardinality(NodesOfType(graph, CLS_DNSRecord)) = rowIdx
             /\ Cardinality(NodesOfType(graph, CLS_Relationship)) = rowIdx
             /\ \A k \in 1..rowIdx : C1_RowShape(k)

C1_Witness ==
    /\ WellFormed
    /\ pc = "L263"
    /\ Len(csv.rows) = MaxRows
    /\ Cardinality(NodesOfType(graph, CLS_DNSRecord)) = MaxRows

----------------------------------------------------------------------------
\* C2: all identifiers minted in a run are pairwise distinct (so none is ever
\* issued again), four are minted per completed row, and every node of the
\* graph is one of them -- also when rows repeat a domain name and address.
C2_DistinctIds ==
    /\ \A i, j \in DOMAIN issued : i # j => issued[i] # issued[j]
    /\ (pc = "L80" \/ pc \in ReturnedPcs) => Len(issued) = 4 * rowIdx
    /\ \A t \in graph : t[1] \in {issued[i] : i \in DOMAIN issued}
    /\ Cardinality({t[1] : t \in graph}) <= Len(issued)
    /\ (pc = "L80" \/ pc \in ReturnedPcs) =>
           Cardinality({t[1] : t \in graph}) = 4 * rowIdx

C2_Witness ==
    /\ Len(issued) >= 8
    /\ pc \in ReturnedPcs
    /\ WellFormed
    /\ consumed[1][COL_DOMAIN] = consumed[2][COL_DOMAIN]
    /\ consumed[1][COL_IP] = consumed[2][COL_IP]

----------------------------------------------------------------------------
\* C3: if one of the four required columns is missing from the rows of the
\* input, the run aborts: serialization is never reached and no output file
\* is written.
C3_MissingColumnAborts ==
    (csv.rows # <<>> /\ ~WellFormed) =>
        /\ pc \notin SerializeReachedPcs
        /\ out_file = <<>>

\* C3, the part the code does enforce: a missing column that the loop body
\* reads (domain name, address, timestamp) aborts the run at the first row,
\* before process_dns_records returns and before anything is written.
C3_ReadColumnAborts ==
    (csv.rows # <<>> /\ {COL_DOMAIN, COL_IP, COL_TIME} \ csv.fieldnames # {}) =>
        /\ pc \notin ReturnedPcs
        /\ out_file = <<>>
        /\ (pc # "aborted" => ENABLED Next)

----------------------------------------------------------------------------
\* C4: with --validate the process exits non-zero whenever validation reports
\* non-conformance or cannot be performed (parse failure, ontology load
\* failure, any other exception), such a failure is never returned as
\* "conforms", and exit status 0 occurs only without --validate or with a
\* conforming verdict.
C4_ExitStatus ==
    /\ exit_code = <<0>> => (~args.validate \/ outcome = "conforms")
    /\ exit_code = <<0>> => (pc = "done" /\ exception = "")
    /\ IsFailure(outcome) =>
          /\ args.validate
          /\ validation = <<FALSE>>
          /\ exit_code # <<0>>
          /\ pc \in {"L283", "done"}
          /\ (pc = "done" => exit_code = <<1>>)
    /\ pc = "L283" => ENABLED ExitOnValidation

C4_Witness ==
    /\ pc = "done"
    /\ args.validate
    /\ outcome = "load_failed"
    /\ ont_loaded = <<"core.ttl">>
    /\ exit_code = <<1>>

----------------------------------------------------------------------------
\* C5 as stated: the format used is the value of --output-format when given,
\* otherwise the extension guess, otherwise JSON-LD.
C5_Stated ==
    LET guess == guess_format(args.out_graph)
        want  == IF args.output_format # <<>> THEN args.output_format[1]
                 ELSE IF guess # <<>> THEN guess[1] ELSE "json-ld"
    IN /\ output_format # <<>> => output_format[1] = want
       /\ out_file # <<>> => out_file[1].format = want

\* C5 amended: the format used is the value of --output-format when it is
\* given and not the empty string; JSON-LD when it is given as the empty
\* string (the extension is not consulted); otherwise the extension guess,
\* and JSON-LD when the guess yields nothing.
C5_FormatChoice ==
    LET guess == guess_format(args.out_graph)
        want  == IF args.output_format = <<>>
                 THEN (IF guess # <<>> THEN guess[1] ELSE "json-ld")
                 ELSE IF args.output_format[1] = "" THEN "json-ld"
                 ELSE args.output_format[1]
    IN /\ output_format # <<>> => output_format[1] = want
       /\ out_file # <<>> => out_file[1].format = want
       /\ pc \in SerializeReachedPcs => output_format # <<>>

C5_Witness ==
    /\ out_file # <<>>
    /\ args.output_format = <<"turtle">>
    /\ args.out_graph = "json"
    /\ out_file[1].format = "turtle"

----------------------------------------------------------------------------
\* C6: the statements emitted for a row do not depend on its relationship-kind
\* column: two rows that agree on every other column yield the same statements
\* once the minted identifiers are erased; every Relationship of a completed
\* row has kindOfRelationship "Resolved_To" and isDirectional true, every
\* DNSRecord recordType "A" and isPassiveDNS true.
Erase(term) == IF term.t = "kb" THEN [term EXCEPT !.n = 0] ELSE term

RowIds(k) == {IdOf(k, role) : role \in 1..4}

Normalized(k) ==
    {<<Erase(t[1]), t[2], Erase(t[3])>> : t \in {u \in graph : u[1] \in RowIds(k)}}

AgreeExceptKind(r1, r2) ==
    \A c \in DOMAIN r1 \ {COL_KIND} : r1[c] = r2[c]

C6_KindIgnored ==
    /\ \A i, j \in 1..RowsDone :
          AgreeExceptKind(consumed[i], consumed[j]) => Normalized(i) = Normalized(j)
    /\ \A k \in 1..RowsDone :
          /\ Objects(graph, IdOf(k, 4), "uco-core:kindOfRelationship")
               = {Literal("Resolved_To", "")}
          /\ Objects(graph, IdOf(k, 4), "uco-core:isDirectional")
               = {Literal("true", "xsd:boolean")}
          /\ Objects(graph, IdOf(k, 1), "uco-observable:recordType")
               = {Literal("A", "")}
          /\ Objects(graph, IdOf(k, 1), "uco-observable:isPassiveDNS")
               = {Literal("true", "xsd:boolean")}

C6_Witness ==
    /\ RowsDone >= 2
    /\ COL_KIND \in csv.fieldnames
    /\ consumed[1][COL_KIND] # consumed[2][COL_KIND]
    /\ AgreeExceptKind(consumed[1], consumed[2])
    /\ Normalized(1) = Normalized(2)
    /\ Cardinality(Normalized(1)) = 15

----------------------------------------------------------------------------
\* C7: with a header and zero data rows the run does not abort and cannot
\* stall before its end; the graph has no DNSRecord, facet or Relationship
\* node; serialization is reached and writes the (empty) graph; without
\* --validate the process ends with status 0.
C7_EmptyInput ==
    csv.rows = <<>> =>
        /\ pc # "aborted"
        /\ (pc # "done" => ENABLED Next)
        /\ \A cls \in {CLS_DNSRecord, CLS_DomainNameFacet,
                        CLS_IPv4AddressFacet, CLS_Relationship} :
              NodesOfType(graph, cls) = {}
        /\ (pc \in WrittenPcs =>
              /\ out_file # <<>>
              /\ out_file[1].triples = graph
              /\ \A cls \in {CLS_DNSRecord, CLS_DomainNameFacet,
                              CLS_IPv4AddressFacet, CLS_Relationship} :
                    NodesOfType(out_file[1].triples, cls) = {})
        /\ (pc = "done" /\ ~args.validate => exit_code = <<0>>)

C7_Witness ==
    /\ csv.rows = <<>>
    /\ csv.fieldnames = RequiredColumns
    /\ pc = "done"
    /\ ~args.validate
    /\ out_file # <<>>
    /\ exit_code = <<0>>

----------------------------------------------------------------------------
\* C8: whenever a source (target) statement of a Relationship is added, the
\* graph before the step already holds the type statement of the referenced
\* DomainNameFacet (IPv4AddressFacet); hence in no state does a Relationship
\* reference a facet that is not in the graph.
EndpointTyped(g, t) ==
    /\ t[2] = "uco-core:source" => <<t[3], RDF_TYPE, CLS_DomainNameFacet>> \in g
    /\ t[2] = "uco-core:target" => <<t[3], RDF_TYPE, CLS_IPv4AddressFacet>> \in g

C8_EndpointsFirst ==
    /\ [](\A t \in graph : EndpointTyped(graph, t))
    /\ [][\A t \in graph' \ graph : EndpointTyped(graph, t)]_vars

C8_Witness ==
    /\ pc = "L134"
    /\ rowIdx = 2
    /\ <<relationship_id, "uco-core:source", domain_facet_id>> \in graph
    /\ <<relationship_id, "uco-core:target", ip_facet_id>> \in graph

----------------------------------------------------------------------------
\* C9: the rows are consumed in input order and all of them before
\* serialization starts; the file is written once and never rewritten;
\* validation runs only on the written file; when validation fails or cannot
\* be performed the process exits 1 with the file holding the complete graph.
C9_PhaseState ==
    /\ Len(consumed) <= Len(csv.rows)
    /\ consumed = SubSeq(csv.rows, 1, Len(consumed))
    /\ pc \in SerializeReachedPcs => consumed = csv.rows
    /\ pc \notin WrittenPcs => (out_file = <<>> /\ outcome = "none")
    /\ pc \in WrittenPcs => (out_file # <<>> /\ out_file[1].triples = graph)
    /\ (pc = "done" /\ IsFailure(outcome)) =>
          /\ exit_code = <<1>>
          /\ out_file # <<>>
          /\ out_file[1].triples = graph
          /\ Cardinality(NodesOfType(out_file[1].triples, CLS_DNSRecord))
               = Len(csv.rows)

C9_PhaseOrder ==
    /\ []C9_PhaseState
    /\ [][out_file # <<>> => out_file' = out_file]_vars
    /\ [][pc' \in ValidatorPcs => out_file # <<>>]_vars

C9_Witness ==
    /\ pc = "done"
    /\ IsFailure(outcome)
    /\ exit_code = <<1>>
    /\ Len(csv.rows) = 2
    /\ csv.rows[1] # csv.rows[2]
    /\ Cardinality(NodesOfType(out_file[1].triples, CLS_DNSRecord)) = 2

----------------------------------------------------------------------------
\* C10: the validator parses the file as JSON-LD whatever format main wrote:
\* it gets past its parse step only on a JSON-LD file, so a run with
\* --validate and another serialization format ends with status 1, and a run
\* with --validate ends with status 0 only if the format was JSON-LD.
C10_ValidatorReadsJsonLd ==
    /\ (args.validate /\ pc = "done" /\ output_format # <<"json-ld">>) =>
          (exit_code = <<1>> /\ outcome = "parse_failed")
    /\ (args.validate /\ exit_code = <<0>>) => output_format = <<"json-ld">>
    /\ outcome \in {"conforms", "nonconforming", "load_failed", "exception"} =>
          out_file[1].format = "json-ld"
    /\ pc \in {"L167", "L175"} => out_file[1].format = "json-ld"

C10_Witness ==
    /\ pc = "done"
    /\ args.validate
    /\ output_format = <<"turtle">>
    /\ outcome = "parse_failed"
    /\ exit_code = <<1>>

====
